---- MODULE Spec2Model ----
(***************************************************************************)
(* Attendance / daily-note bot (bot/main.py): the sqlite store, the        *)
(* entry / exit / auto-entry handlers, the note session handlers and the   *)
(* attendance and notes reports, as a state machine over the four tables.  *)
(*                                                                         *)
(* Time is counted in ticks (the stored timestamps have one-second         *)
(* resolution; a tick stands for a block of seconds).  A calendar date is  *)
(* its proleptic Gregorian ordinal, as datetime.date.toordinal().          *)
(***************************************************************************)
EXTENDS Integers, Sequences, FiniteSets, Bags, TLC

\* ------------------------------------------------------------------ bounds
\* updates handled in a run of the whole bot (Spec)
MaxUpdates == 2
\* updates handled in a run of one part of the bot (SpecAtt and the later ones)
MaxAttUpdates == 4
\* ticks the clock may advance after the bot starts
MaxTicks == 2
\* ticks in one calendar day
TicksPerDay == 2
\* the calendar day the bot starts on (739067 = Sunday 2024-06-30, so that
\* the following day starts a new week and a new month)
FirstDay == 739067

\* days after the first on which get_period_dates is evaluated (SpecPeriod)
PeriodSpan == 1500

\* ------------------------------------------------------------------ config
Users == {1, 2}

LOCATIONS == <<"loc_a", "loc_b">>

LocationSet == {LOCATIONS[i] : i \in 1..Len(LOCATIONS)}

\* free texts a user may type (none of them a button label or a location)
Messages == {"hello"}

\* ---------------------------------------------------------------- calendar
\* datetime.date arithmetic of the standard library, on ordinals
IsLeap(y) == (y % 4 = 0) /\ ((y % 100 # 0) \/ (y % 400 = 0))

DaysInMonth(y, m) ==
    IF m = 2 THEN (IF IsLeap(y) THEN 29 ELSE 28)
    ELSE IF m \in {4, 6, 9, 11} THEN 30 ELSE 31

DaysBeforeYear(y) ==
    (y - 1) * 365 + ((y - 1) \div 4) - ((y - 1) \div 100) + ((y - 1) \div 400)

\* _DAYS_BEFORE_MONTH
DaysBeforeMonthTable == <<0, 31, 59, 90, 120, 151, 181, 212, 243, 273, 304, 334>>

\* _days_before_month(year, month)
DaysBeforeMonth(y, m) ==
    DaysBeforeMonthTable[m] + (IF m > 2 /\ IsLeap(y) THEN 1 ELSE 0)

\* _ymd2ord(year, month, day)
Ymd2Ord(y, m, d) == DaysBeforeYear(y) + DaysBeforeMonth(y, m) + d

\* the year and the month of _ord2ymd(n)
YearOf(n) ==
    CHOOSE y \in (n \div 366)..((n \div 365) + 1) :
        DaysBeforeYear(y) < n /\ n <= DaysBeforeYear(y + 1)

MonthOf(n) ==
    LET y == YearOf(n)
        k == n - DaysBeforeYear(y) - 1
        m == (k + 50) \div 32
    IN  IF DaysBeforeMonth(y, m) > k THEN m - 1 ELSE m

\* date.weekday(): Monday is 0
Weekday(n) == (n + 6) % 7

\* ------------------------------------------------------------------- clock
\* the local calendar date of an instant
DateOf(t) == t \div TicksPerDay

\* the instant "<date>T00:00:00" and the instant "<date>T23:59:59"
StartOfDay(d) == d * TicksPerDay

EndOfDay(d) == (d + 1) * TicksPerDay - 1

FirstTick == StartOfDay(FirstDay)

LastTick == FirstTick + MaxTicks

\* the calendar days the clock passes through
Days == DateOf(FirstTick)..DateOf(LastTick)

\* datetime.fromisoformat of a stored timestamp: now_iso() writes the UTC
\* offset, so the value is timezone-aware
FromIsoAware(t) == [t |-> t, aware |-> TRUE]

\* datetime.fromisoformat of "<date>T23:59:59": no offset, so naive
FromIsoNaive(t) == [t |-> t, aware |-> FALSE]

\* a - b on datetimes: Python raises TypeError when exactly one is aware
CanSub(a, b) == a.aware = b.aware

DtSub(a, b) == a.t - b.t

\* ------------------------------------------------------------------- state
VARIABLES
    now,            \* the wall clock (Asia/Tehran), in ticks
    users,          \* table users: the user ids registered by /start
    attendance,     \* table attendance: sequence of rows, id = index
    daily_notes,    \* table daily_notes: sequence of rows, id = index
    note_sessions,  \* table note_sessions: user id -> <<>> (no row) or <<active>>
    prompts,        \* bag of the confirm:auto_entry buttons sent so far (payloads)
    reply,          \* the response to the update handled last
    procs,          \* callback handlers in flight: position and locals of each
    handled         \* number of updates handled so far

vars == <<now, users, attendance, daily_notes, note_sessions, prompts, reply, procs, handled>>

\* the four tables
store == <<users, attendance, daily_notes, note_sessions>>

\* SQL NULL in a nullable column; a present value v is <<v>>
NULL == <<>>

IsNull(x) == x = <<>>

\* ------------------------------------------------------- attendance queries
\* SELECT id ... WHERE user_id=? AND location=? AND exit_time IS NULL
OpenIds(att, u, l) ==
    {i \in 1..Len(att) :
        att[i].user_id = u /\ att[i].location = l /\ IsNull(att[i].exit_time)}

Max(S) == CHOOSE x \in S : \A y \in S : y <= x

\* ... ORDER BY id DESC LIMIT 1: the rows fetched, as a sequence of ids
SelectOpen(att, u, l) ==
    IF OpenIds(att, u, l) = {} THEN <<>> ELSE <<Max(OpenIds(att, u, l))>>

\* INSERT INTO attendance(...) VALUES (?, ?, ?, ?, ?)
InsertAttendance(att, u, l, ent, ex, auto) ==
    Append(att, [user_id |-> u, location |-> l, entry_time |-> ent,
                 exit_time |-> ex, auto_created |-> auto])

\* the UPDATE without its "WHERE id=?"
UpdateExit_NoWhere(att, rid, ts) ==
    [i \in 1..Len(att) |-> [att[i] EXCEPT !.exit_time = <<ts>>]]

\* UPDATE attendance SET exit_time=? WHERE id=?
UpdateExit(att, rid, ts) ==
    [i \in 1..Len(att) |->
        IF i = rid THEN [att[i] EXCEPT !.exit_time = <<ts>>] ELSE att[i]]

\* INSERT OR REPLACE INTO note_sessions(user_id, active) VALUES (?, a)
SetSession(ns, u, a) == [ns EXCEPT ![u] = <<a>>]

\* a handler slot of the event loop with no update in it
NoData == [tag |-> "none", user_id |-> 0, location |-> ""]

Idle == [pc |-> "idle", user |-> 0, data |-> NoData, ts |-> 0, rows |-> <<>>]

Procs == {1, 2}

Init ==
    /\ now = FirstTick
    /\ users = {}
    /\ attendance = <<>>
    /\ daily_notes = <<>>
    /\ note_sessions = [u \in Users |-> NULL]
    /\ prompts = EmptyBag
    /\ reply = [kind |-> "none"]
    /\ procs = [p \in Procs |-> Idle]
    /\ handled = 0

\* a clock that may also be set back
Tick_SetBack ==
    /\ \/ now < LastTick /\ now' = now + 1
       \/ now > FirstTick /\ now' = now - 1
    /\ UNCHANGED <<users, attendance, daily_notes, note_sessions, prompts, reply,
                   procs, handled>>

\* the clock advances
Tick ==
    /\ now < LastTick
    /\ now' = now + 1
    /\ UNCHANGED <<users, attendance, daily_notes, note_sessions, prompts, reply,
                   procs, handled>>

\* ----------------------------------------------------- attendance handlers
\* /start
Start(u) ==
    /\ users' = users \cup {u}
    /\ reply' = [kind |-> "welcome"]
    /\ UNCHANGED <<attendance, daily_notes, note_sessions, prompts>>

\* handle_entry without its "if rows: ... return"
HandleEntry_NoGuard(u, l) ==
    /\ attendance' = InsertAttendance(attendance, u, l, now, NULL, 0)
    /\ reply' = [kind |-> "entry_ok"]
    /\ UNCHANGED <<users, daily_notes, note_sessions, prompts>>

\* handle_entry closing the interval still open and inserting the new one
HandleEntry_AutoClose(u, l) ==
    LET ts == now
        rows == SelectOpen(attendance, u, l)
        closed == IF rows # <<>> THEN UpdateExit(attendance, rows[1], ts) ELSE attendance
    IN  /\ attendance' = InsertAttendance(closed, u, l, ts, NULL, 0)
        /\ reply' = [kind |-> "entry_ok"]
        /\ UNCHANGED <<users, daily_notes, note_sessions, prompts>>

\* handle_entry(query, context, location), query.from_user.id = u
HandleEntry(u, l) ==
    LET ts == now
        rows == SelectOpen(attendance, u, l)
    IN  IF rows # <<>>
        THEN /\ reply' = [kind |-> "exit_required"]
             /\ UNCHANGED <<users, attendance, daily_notes, note_sessions, prompts>>
        ELSE /\ attendance' = InsertAttendance(attendance, u, l, ts, NULL, 0)
             /\ reply' = [kind |-> "entry_ok"]
             /\ UNCHANGED <<users, daily_notes, note_sessions, prompts>>

\* the duration handle_exit shows: end_dt - start_dt, or the dash on an exception
ExitHuman(entry_time, ts) ==
    IF CanSub(FromIsoAware(ts), FromIsoAware(entry_time))
    THEN <<DtSub(FromIsoAware(ts), FromIsoAware(entry_time))>>
    ELSE <<>>

\* handle_exit creating the automatic entry and exit at once, without asking
HandleExit_AutoInsert(u, l) ==
    LET ts == now
        rows == SelectOpen(attendance, u, l)
    IN  IF rows # <<>>
        THEN /\ attendance' = UpdateExit(attendance, rows[1], ts)
             /\ reply' = [kind |-> "exit_ok",
                          human |-> ExitHuman(attendance[rows[1]].entry_time, ts)]
             /\ UNCHANGED <<users, daily_notes, note_sessions, prompts>>
        ELSE /\ attendance' = InsertAttendance(attendance, u, l, ts, <<ts>>, 1)
             /\ reply' = [kind |-> "confirm_required", user_id |-> u, location |-> l]
             /\ UNCHANGED <<users, daily_notes, note_sessions, prompts>>

\* handle_exit(query, context, location), query.from_user.id = u
HandleExit(u, l) ==
    LET ts == now
        rows == SelectOpen(attendance, u, l)
    IN  IF rows # <<>>
        THEN /\ attendance' = UpdateExit(attendance, rows[1], ts)
             /\ reply' = [kind |-> "exit_ok",
                          human |-> ExitHuman(attendance[rows[1]].entry_time, ts)]
             /\ UNCHANGED <<users, daily_notes, note_sessions, prompts>>
        ELSE /\ prompts' = prompts (+) SetToBag({[user_id |-> u, location |-> l]})
             /\ reply' = [kind |-> "confirm_required", user_id |-> u, location |-> l]
             /\ UNCHANGED <<users, attendance, daily_notes, note_sessions>>

\* confirm_auto_entry inserting an ordinary open entry
ConfirmAutoEntry_Open(user_id, l) ==
    /\ attendance' = InsertAttendance(attendance, user_id, l, now, NULL, 0)
    /\ reply' = [kind |-> "auto_ok"]
    /\ UNCHANGED <<users, daily_notes, note_sessions, prompts>>

\* confirm_auto_entry writing auto_created = 0
ConfirmAutoEntry_Unflagged(user_id, l) ==
    LET ts == now
    IN  /\ attendance' = InsertAttendance(attendance, user_id, l, ts, <<ts>>, 0)
        /\ reply' = [kind |-> "auto_ok"]
        /\ UNCHANGED <<users, daily_notes, note_sessions, prompts>>

\* confirm_auto_entry(query, context, user_id, location)
ConfirmAutoEntry(user_id, l) ==
    LET ts == now
    IN  /\ attendance' = InsertAttendance(attendance, user_id, l, ts, <<ts>>, 1)
        /\ reply' = [kind |-> "auto_ok"]
        /\ UNCHANGED <<users, daily_notes, note_sessions, prompts>>

\* a reset that leaves the note session as it is
ResetUserState_Keep(u) ==
    note_sessions' = note_sessions

\* reset_user_state(user_id)
ResetUserState(u) ==
    note_sessions' = SetSession(note_sessions, u, 0)

\* ---------------------------------------------------------- note handlers
\* start_note_session
StartNoteSession(u) ==
    /\ note_sessions' = SetSession(note_sessions, u, 1)
    /\ reply' = [kind |-> "session_on"]
    /\ UNCHANGED <<users, attendance, daily_notes, prompts>>

\* end_note_session
EndNoteSession(u) ==
    /\ note_sessions' = SetSession(note_sessions, u, 0)
    /\ reply' = [kind |-> "session_off"]
    /\ UNCHANGED <<users, attendance, daily_notes, prompts>>

\* today_str(): the local date; time_str(): the local time of day
TodayStr(t) == DateOf(t)

TimeStr(t) == t - StartOfDay(DateOf(t))

\* the session test taking a missing row for an active session
SessionActive_Default(ns, u) == ns[u] = <<>> \/ ns[u][1] = 1

\* active = bool(rows and rows[0][0] == 1)
SessionActive(ns, u) == ns[u] # <<>> /\ ns[u][1] = 1

\* handle_note_message, update.message.text = msg
HandleNoteMessage(u, msg) ==
    IF SessionActive(note_sessions, u)
    THEN /\ daily_notes' = Append(daily_notes,
                [user_id |-> u, note_date |-> TodayStr(now), time |-> TimeStr(now),
                 message |-> msg])
         /\ reply' = [kind |-> "note_saved"]
         /\ UNCHANGED <<users, attendance, note_sessions, prompts>>
    ELSE /\ reply' = [kind |-> "note_off"]
         /\ UNCHANGED <<users, attendance, daily_notes, note_sessions, prompts>>

\* -------------------------------------------------------- attendance report
RECURSIVE SumDur(_)
SumDur(ivs) == IF ivs = <<>> THEN 0 ELSE ivs[1].dur + SumDur(Tail(ivs))

\* the range query with a reversed range put in order first
SelectRange_Ordered(att, u, sd, ed) ==
    SelectSeq(att, LAMBDA r : /\ r.user_id = u
                              /\ r.entry_time >= StartOfDay(IF sd <= ed THEN sd ELSE ed)
                              /\ r.entry_time < StartOfDay((IF sd <= ed THEN ed ELSE sd) + 1))

\* the range query returning the newest row first (ORDER BY id DESC)
SelectRange_Descending(att, u, sd, ed) ==
    LET rows == SelectSeq(att, LAMBDA r : /\ r.user_id = u
                                          /\ r.entry_time >= StartOfDay(sd)
                                          /\ r.entry_time < StartOfDay(ed + 1))
    IN  [k \in 1..Len(rows) |-> rows[Len(rows) + 1 - k]]

\* SELECT location, entry_time, exit_time FROM attendance
\* WHERE user_id=? AND entry_time>=? AND entry_time<?   (s = sd, e = ed + 1 day;
\* an ISO timestamp compares with an ISO date as its own date does)
SelectRange(att, u, sd, ed) ==
    SelectSeq(att, LAMBDA r : /\ r.user_id = u
                              /\ r.entry_time >= StartOfDay(sd)
                              /\ r.entry_time < StartOfDay(ed + 1))

\* ex_dt of a row: end of end_date (naive) when exit_time is NULL
ExDt(r, ed) ==
    IF IsNull(r.exit_time) THEN FromIsoNaive(EndOfDay(ed))
    ELSE FromIsoAware(r.exit_time[1])

\* the (ent_dt, ex_dt, dur) tuple of a row
IntervalOf(r, ed) ==
    [ent |-> r.entry_time, ex |-> ExDt(r, ed).t,
     dur |-> DtSub(ExDt(r, ed), FromIsoAware(r.entry_time))]

RECURSIVE IntervalsAt(_, _, _)
IntervalsAt(rows, loc, ed) ==
    IF rows = <<>> THEN <<>>
    ELSE IF rows[1].location = loc
         THEN <<IntervalOf(rows[1], ed)>> \o IntervalsAt(Tail(rows), loc, ed)
         ELSE IntervalsAt(Tail(rows), loc, ed)

\* calc_stats_for_period(user_id, start_date, end_date): (stats, total), or the
\* TypeError of "ex_dt - ent_dt" on a naive and an aware datetime
CalcStatsForPeriod(att, u, sd, ed) ==
    LET rows == SelectRange(att, u, sd, ed)
        locs == LocationSet \cup {rows[i].location : i \in 1..Len(rows)}
    IN  IF \E i \in 1..Len(rows) :
              ~CanSub(ExDt(rows[i], ed), FromIsoAware(rows[i].entry_time))
        THEN [ok |-> FALSE, exc |-> "TypeError"]
        ELSE [ok |-> TRUE,
              stats |-> [loc \in locs |->
                           [intervals |-> IntervalsAt(rows, loc, ed),
                            total |-> SumDur(IntervalsAt(rows, loc, ed))]],
              total |-> SumDur([i \in 1..Len(rows) |-> IntervalOf(rows[i], ed)])]

\* get_period_dates with monthly ending on the eve of 1 January of the same year
GetPeriodDates_SameYear(period, d) ==
    IF period = "daily" THEN [ok |-> TRUE, sd |-> d, ed |-> d]
    ELSE IF period = "weekly"
    THEN [ok |-> TRUE, sd |-> d - Weekday(d), ed |-> d - Weekday(d) + 6]
    ELSE IF period = "monthly"
    THEN LET y == YearOf(d)
             m == MonthOf(d)
         IN  [ok |-> TRUE, sd |-> Ymd2Ord(y, m, 1),
              ed |-> IF m = 12 THEN Ymd2Ord(y, 1, 1) - 1 ELSE Ymd2Ord(y, m + 1, 1) - 1]
    ELSE [ok |-> FALSE, exc |-> "ValueError"]

\* get_period_dates(period) with today = d: the dates sd and ed, or the
\* ValueError("invalid period") of any other token
GetPeriodDates(period, d) ==
    IF period = "daily" THEN [ok |-> TRUE, sd |-> d, ed |-> d]
    ELSE IF period = "weekly"
    THEN [ok |-> TRUE, sd |-> d - Weekday(d), ed |-> d - Weekday(d) + 6]
    ELSE IF period = "monthly"
    THEN LET y == YearOf(d)
             m == MonthOf(d)
         IN  [ok |-> TRUE, sd |-> Ymd2Ord(y, m, 1),
              ed |-> IF m = 12 THEN Ymd2Ord(y + 1, 1, 1) - 1
                     ELSE Ymd2Ord(y, m + 1, 1) - 1]
    ELSE [ok |-> FALSE, exc |-> "ValueError"]

Periods == {"daily", "weekly", "monthly"}

\* the lines of the text / PDF report: one per configured location, in order
ReportLines(st) ==
    [i \in 1..Len(LOCATIONS) |->
        [loc |-> LOCATIONS[i],
         total |-> st.stats[LOCATIONS[i]].total,
         intervals |-> st.stats[LOCATIONS[i]].intervals]]

\* a text report that stores the substituted end of the intervals still open
GenerateTextReport_Closing(u, sd, ed) ==
    LET closed == [i \in 1..Len(attendance) |->
                     IF attendance[i].user_id = u /\ IsNull(attendance[i].exit_time)
                     THEN [attendance[i] EXCEPT !.exit_time = <<EndOfDay(ed)>>]
                     ELSE attendance[i]]
        st == CalcStatsForPeriod(closed, u, sd, ed)
    IN  /\ reply' = [kind |-> "report", user |-> u, sd |-> sd, ed |-> ed,
                     lines |-> ReportLines(st), total |-> st.total]
        /\ attendance' = closed
        /\ UNCHANGED <<users, daily_notes, note_sessions, prompts>>

\* generate_text_report(update, context, sd=sd, ed=ed)
GenerateTextReport(u, sd, ed) ==
    LET st == CalcStatsForPeriod(attendance, u, sd, ed)
    IN  /\ reply' = IF st.ok
                    THEN [kind |-> "report", user |-> u, sd |-> sd, ed |-> ed,
                          lines |-> ReportLines(st), total |-> st.total]
                    ELSE [kind |-> "exception", exc |-> st.exc, user |-> u,
                          sd |-> sd, ed |-> ed]
        /\ UNCHANGED <<users, attendance, daily_notes, note_sessions, prompts>>

\* generate_pdf_report(update, context, period)
GeneratePdfReport(u, period) ==
    LET sd == GetPeriodDates(period, DateOf(now)).sd
        ed == GetPeriodDates(period, DateOf(now)).ed
        st == CalcStatsForPeriod(attendance, u, sd, ed)
    IN  /\ reply' = IF st.ok
                    THEN [kind |-> "pdf", user |-> u, sd |-> sd, ed |-> ed,
                          lines |-> ReportLines(st), total |-> st.total]
                    ELSE [kind |-> "exception", exc |-> st.exc, user |-> u,
                          sd |-> sd, ed |-> ed]
        /\ UNCHANGED <<users, attendance, daily_notes, note_sessions, prompts>>

\* comp(row) counting an open interval up to the moment of the export
Comp_Now(r) ==
    IF ~IsNull(r.exit_time)
    THEN DtSub(FromIsoAware(r.exit_time[1]), FromIsoAware(r.entry_time))
    ELSE DtSub(FromIsoAware(now), FromIsoAware(r.entry_time))

\* comp(row) of generate_excel_report: the hours of an export row
Comp(r) ==
    IF ~IsNull(r.exit_time)
    THEN DtSub(FromIsoAware(r.exit_time[1]), FromIsoAware(r.entry_time))
    ELSE DtSub(FromIsoAware(r.entry_time), FromIsoAware(r.entry_time))

\* generate_excel_report(update, context, period)
GenerateExcelReport(u, period) ==
    LET sd == GetPeriodDates(period, DateOf(now)).sd
        ed == GetPeriodDates(period, DateOf(now)).ed
        rows == SelectRange(attendance, u, sd, ed)
    IN  /\ reply' = [kind |-> "excel", user |-> u, sd |-> sd, ed |-> ed,
                     rows |-> [i \in 1..Len(rows) |->
                                 [location |-> rows[i].location,
                                  entry_time |-> rows[i].entry_time,
                                  exit_time |-> rows[i].exit_time,
                                  hours |-> Comp(rows[i])]]]
        /\ UNCHANGED <<users, attendance, daily_notes, note_sessions, prompts>>

\* ------------------------------------------------------------- notes report
\* ORDER BY note_date, time, id on row ids
NoteBefore(notes, i, j) ==
    \/ notes[i].note_date < notes[j].note_date
    \/ /\ notes[i].note_date = notes[j].note_date
       /\ \/ notes[i].time < notes[j].time
          \/ notes[i].time = notes[j].time /\ i < j

RECURSIVE OrderNotes(_, _)
OrderNotes(notes, ids) ==
    IF ids = {} THEN <<>>
    ELSE LET first == CHOOSE i \in ids : \A j \in ids \ {i} : NoteBefore(notes, i, j)
         IN  <<notes[first]>> \o OrderNotes(notes, ids \ {first})

\* collect_notes_for_period(user_id, sd, ed)
CollectNotesForPeriod(notes, u, sd, ed) ==
    OrderNotes(notes, {i \in 1..Len(notes) :
        notes[i].user_id = u /\ notes[i].note_date >= sd /\ notes[i].note_date <= ed})

\* generate_notes_report(update, context, sd=sd, ed=ed)
GenerateNotesReport(u, sd, ed) ==
    LET rows == CollectNotesForPeriod(daily_notes, u, sd, ed)
    IN  /\ reply' = IF rows = <<>> THEN [kind |-> "no_notes"]
                    ELSE [kind |-> "notes_report", user |-> u, sd |-> sd, ed |-> ed,
                          rows |-> rows]
        /\ UNCHANGED <<users, attendance, daily_notes, note_sessions, prompts>>

\* --------------------------------------------------------- range commands
\* a date literal typed by the user: parse_jalali_date either raises or gives
\* the Gregorian date g the literal denotes
BadLiteral == [ok |-> FALSE, g |-> 0]

ArgLists ==
    {<<>>, <<BadLiteral, BadLiteral>>}
        \cup {<<[ok |-> TRUE, g |-> a], [ok |-> TRUE, g |-> b]>> : a \in Days, b \in Days}

\* report_range_cmd, context.args = args
ReportRangeCmd(u, args) ==
    IF Len(args) # 2
    THEN /\ reply' = [kind |-> "usage"]
         /\ UNCHANGED <<users, attendance, daily_notes, note_sessions, prompts>>
    ELSE IF ~args[1].ok \/ ~args[2].ok
    THEN /\ reply' = [kind |-> "bad_date"]
         /\ UNCHANGED <<users, attendance, daily_notes, note_sessions, prompts>>
    ELSE GenerateTextReport(u, args[1].g, args[2].g)

\* notes_range_cmd, context.args = args
NotesRangeCmd(u, args) ==
    IF Len(args) # 2
    THEN /\ reply' = [kind |-> "usage"]
         /\ UNCHANGED <<users, attendance, daily_notes, note_sessions, prompts>>
    ELSE IF ~args[1].ok \/ ~args[2].ok
    THEN /\ reply' = [kind |-> "bad_date"]
         /\ UNCHANGED <<users, attendance, daily_notes, note_sessions, prompts>>
    ELSE GenerateNotesReport(u, args[1].g, args[2].g)

\* ----------------------------------------------------------------- routers
\* the reply of a handler that only sends a keyboard or a menu
Menu(kind) ==
    /\ reply' = [kind |-> kind]
    /\ UNCHANGED <<users, attendance, daily_notes, note_sessions, prompts>>

\* the period of a report button
PeriodOf(text) ==
    IF text \in {"report_daily", "excel_daily", "pdf_daily", "notes_daily"} THEN "daily"
    ELSE IF text \in {"report_weekly", "excel_weekly", "pdf_weekly", "notes_weekly"}
         THEN "weekly"
         ELSE "monthly"

TextReportButtons == {"report_daily", "report_weekly", "report_monthly"}

ExcelButtons == {"excel_daily", "excel_weekly", "excel_monthly"}

PdfButtons == {"pdf_daily", "pdf_weekly", "pdf_monthly"}

NotesReportButtons == {"notes_daily", "notes_weekly", "notes_monthly"}

\* quick_buttons of text_router
QuickButtons ==
    TextReportButtons \cup ExcelButtons \cup PdfButtons \cup NotesReportButtons
        \cup {"export_menu", "end_note", "back", "restart"}

\* handle_quick_text(update, context, text)
HandleQuickText(u, text) ==
    LET sd == GetPeriodDates(PeriodOf(text), DateOf(now)).sd
        ed == GetPeriodDates(PeriodOf(text), DateOf(now)).ed
    IN  IF text \in TextReportButtons THEN GenerateTextReport(u, sd, ed)
        ELSE IF text = "export_menu" THEN Menu("export_menu")
        ELSE IF text \in ExcelButtons THEN GenerateExcelReport(u, PeriodOf(text))
        ELSE IF text \in PdfButtons THEN GeneratePdfReport(u, PeriodOf(text))
        ELSE IF text \in NotesReportButtons THEN GenerateNotesReport(u, sd, ed)
        ELSE IF text = "end_note" THEN EndNoteSession(u)
        ELSE IF text = "back" THEN Menu("back")
        ELSE /\ ResetUserState(u)
             /\ reply' = [kind |-> "restarted"]
             /\ UNCHANGED <<users, attendance, daily_notes, prompts>>

\* the texts a user may send: locations, menu buttons and free text
Texts == LocationSet \cup {"reports", "daily_note"} \cup QuickButtons \cup Messages

\* text_router(update, context), update.message.text = text
TextRouter(u, text) ==
    IF text \in LocationSet THEN Menu("location_menu")
    ELSE IF text = "reports" THEN Menu("report_menu")
    ELSE IF text = "daily_note" THEN StartNoteSession(u)
    ELSE IF text \in QuickButtons THEN HandleQuickText(u, text)
    ELSE HandleNoteMessage(u, text)

\* callback payloads: action:entry|loc, action:exit|loc, action:back,
\* action:restart and the confirm:auto_entry|user_id|loc buttons sent so far
Callbacks ==
    {[tag |-> t, user_id |-> 0, location |-> l] : t \in {"entry", "exit"}, l \in LocationSet}
        \cup {[tag |-> t, user_id |-> 0, location |-> ""] : t \in {"back", "restart"}}
        \cup {[tag |-> "confirm", user_id |-> p.user_id, location |-> p.location] :
                 p \in BagToSet(prompts)}

\* callback_handler whose restart also closes the intervals of the user
CallbackHandler_RestartCloses(u, data) ==
    IF data.tag = "entry" THEN HandleEntry(u, data.location)
    ELSE IF data.tag = "exit" THEN HandleExit(u, data.location)
    ELSE IF data.tag = "back" THEN Menu("back")
    ELSE IF data.tag = "restart"
    THEN /\ ResetUserState(u)
         /\ attendance' = [i \in 1..Len(attendance) |->
                IF attendance[i].user_id = u /\ IsNull(attendance[i].exit_time)
                THEN [attendance[i] EXCEPT !.exit_time = <<now>>]
                ELSE attendance[i]]
         /\ reply' = [kind |-> "restarted"]
         /\ UNCHANGED <<users, daily_notes, prompts>>
    ELSE ConfirmAutoEntry(data.user_id, data.location)

\* callback_handler(update, context), query.from_user.id = u, query.data = data
CallbackHandler(u, data) ==
    IF data.tag = "entry" THEN HandleEntry(u, data.location)
    ELSE IF data.tag = "exit" THEN HandleExit(u, data.location)
    ELSE IF data.tag = "back" THEN Menu("back")
    ELSE IF data.tag = "restart"
    THEN /\ ResetUserState(u)
         /\ reply' = [kind |-> "restarted"]
         /\ UNCHANGED <<users, attendance, daily_notes, prompts>>
    ELSE ConfirmAutoEntry(data.user_id, data.location)

\* ---------------------------------------------------------- specifications
\* one update is taken from the queue and handled to completion
Step(budget) ==
    /\ handled < budget
    /\ handled' = handled + 1
    /\ UNCHANGED <<now, procs>>

OnStart == \E u \in Users : Start(u)

OnText == \E u \in Users, text \in Texts : TextRouter(u, text)

OnCallback == \E u \in Users, data \in Callbacks : CallbackHandler(u, data)

OnReportRange == \E u \in Users, args \in ArgLists : ReportRangeCmd(u, args)

OnNotesRange == \E u \in Users, args \in ArgLists : NotesRangeCmd(u, args)

Next ==
    \/ Tick
    \/ Step(MaxUpdates) /\ OnStart
    \/ Step(MaxUpdates) /\ OnText
    \/ Step(MaxUpdates) /\ OnCallback
    \/ Step(MaxUpdates) /\ OnReportRange
    \/ Step(MaxUpdates) /\ OnNotesRange

\* the whole bot: every handler registered in main()
Spec == Init /\ [][Next]_vars

\* the attendance engine alone: entry, exit, confirmation and attendance reports
AttTexts == TextReportButtons \cup ExcelButtons \cup PdfButtons

\* the user whose attendance is followed in depth
AttUsers == {1}

AttCallbacks == {d \in Callbacks : d.tag \in {"entry", "exit", "confirm"}}

OnAttText == \E u \in AttUsers, text \in AttTexts : TextRouter(u, text)

OnAttCallback == \E u \in AttUsers, data \in AttCallbacks : CallbackHandler(u, data)

OnAttReportRange == \E u \in AttUsers, args \in ArgLists : ReportRangeCmd(u, args)

NextAtt ==
    \/ Tick
    \/ Step(MaxAttUpdates) /\ OnAttText
    \/ Step(MaxAttUpdates) /\ OnAttCallback
    \/ Step(MaxAttUpdates) /\ OnAttReportRange

SpecAtt == Init /\ [][NextAtt]_vars

\* the custom range commands over stored intervals and notes
RangeTexts == {"daily_note"} \cup Messages

RangeCallbacks == {d \in Callbacks : d.tag \in {"entry", "exit"}}

OnRangeText == \E u \in AttUsers, text \in RangeTexts : TextRouter(u, text)

OnRangeCallback == \E u \in AttUsers, data \in RangeCallbacks : CallbackHandler(u, data)

OnRangeNotes == \E u \in AttUsers, args \in ArgLists : NotesRangeCmd(u, args)

NextRange ==
    \/ Tick
    \/ Step(MaxAttUpdates) /\ OnRangeText
    \/ Step(MaxAttUpdates) /\ OnRangeCallback
    \/ Step(MaxAttUpdates) /\ OnAttReportRange
    \/ Step(MaxAttUpdates) /\ OnRangeNotes

SpecRange == Init /\ [][NextRange]_vars

\* an inline keyboard stays in the chat: a location of an entry / exit button
\* sent while LOCATIONS still held it; callback_handler takes the location
\* from the payload as it is
StaleLocations == {"loc_old"}

LocCallbacks ==
    {[tag |-> t, user_id |-> 0, location |-> l] :
        t \in {"entry", "exit"}, l \in LocationSet \cup StaleLocations}

OnLocCallback == \E u \in AttUsers, data \in LocCallbacks : CallbackHandler(u, data)

OnLocText ==
    \E u \in AttUsers, text \in TextReportButtons \cup PdfButtons : TextRouter(u, text)

NextLoc ==
    \/ Tick
    \/ Step(MaxAttUpdates) /\ OnLocCallback
    \/ Step(MaxAttUpdates) /\ OnLocText

\* attendance with buttons older than the configured list
SpecLoc == Init /\ [][NextLoc]_vars

\* get_period_dates on its own: today is any day of PeriodSpan days from the
\* first, the token any of the three periods or another word
PeriodTokens == Periods \cup {"yearly"}

InitPeriod ==
    /\ now \in {StartOfDay(FirstDay + k) : k \in 0..PeriodSpan}
    /\ users = {}
    /\ attendance = <<>>
    /\ daily_notes = <<>>
    /\ note_sessions = [u \in Users |-> NULL]
    /\ prompts = EmptyBag
    /\ reply = [kind |-> "none"]
    /\ procs = [p \in Procs |-> Idle]
    /\ handled = 0

CallGetPeriodDates ==
    /\ \E period \in PeriodTokens :
         reply' = [kind |-> "period", period |-> period, today |-> DateOf(now),
                   res |-> GetPeriodDates(period, DateOf(now))]
    /\ UNCHANGED <<now, users, attendance, daily_notes, note_sessions, prompts, procs,
                   handled>>

NextPeriod == CallGetPeriodDates

SpecPeriod == InitPeriod /\ [][NextPeriod]_vars

\* restart among entries and notes, for both users
RestartTexts == {"restart", "daily_note"} \cup Messages

RestartCallbacks == {d \in Callbacks : d.tag \in {"entry", "restart"}}

OnRestartText == \E u \in Users, text \in RestartTexts : TextRouter(u, text)

OnRestartCallback == \E u \in Users, data \in RestartCallbacks : CallbackHandler(u, data)

NextRestart ==
    \/ Tick
    \/ Step(MaxAttUpdates) /\ OnRestartText
    \/ Step(MaxAttUpdates) /\ OnRestartCallback

SpecRestart == Init /\ [][NextRestart]_vars

\* the callback handlers as coroutines of one event loop: a handler is
\* suspended at "await query.answer()" and at "await ...reply_text(...)", and
\* other handlers may run while it is; between the two awaits it runs without
\* yielding (db_execute is a plain synchronous call)
CallbackBegin(p, u, data) ==
    /\ procs[p].pc = "idle"
    /\ handled < MaxAttUpdates
    /\ handled' = handled + 1
    /\ procs' = [procs EXCEPT ![p] =
                    [pc |-> "answer", user |-> u, data |-> data, ts |-> 0, rows |-> <<>>]]
    /\ UNCHANGED <<now, users, attendance, daily_notes, note_sessions, prompts, reply>>

\* the locals ts and rows of the running handler
FrameRows(u, data) ==
    IF data.tag \in {"entry", "exit"} THEN SelectOpen(attendance, u, data.location)
    ELSE <<>>

\* the INSERT or UPDATE of handle_entry / handle_exit, on the rows its SELECT
\* fetched before the handler was suspended
WriteFetched(p) ==
    LET f == procs[p]
    IN  IF f.data.tag = "entry"
        THEN /\ IF f.rows # <<>>
                THEN /\ reply' = [kind |-> "exit_required"]
                     /\ UNCHANGED attendance
                ELSE /\ attendance' = InsertAttendance(attendance, f.user,
                                                       f.data.location, f.ts, NULL, 0)
                     /\ reply' = [kind |-> "entry_ok"]
             /\ UNCHANGED prompts
        ELSE IF f.rows # <<>>
             THEN /\ attendance' = UpdateExit(attendance, f.rows[1], f.ts)
                  /\ reply' = [kind |-> "exit_ok",
                               human |-> ExitHuman(attendance[f.rows[1]].entry_time, f.ts)]
                  /\ UNCHANGED prompts
             ELSE /\ prompts' = prompts (+)
                          SetToBag({[user_id |-> f.user, location |-> f.data.location]})
                  /\ reply' = [kind |-> "confirm_required", user_id |-> f.user,
                               location |-> f.data.location]
                  /\ UNCHANGED attendance

\* the handler with a suspension point between its SELECT and its write
CallbackRun_Suspending(p) ==
    \/ /\ procs[p].pc = "answer"
       /\ procs' = [procs EXCEPT ![p].pc = "fetched", ![p].ts = now,
                                 ![p].rows = FrameRows(procs[p].user, procs[p].data)]
       /\ UNCHANGED <<now, users, attendance, daily_notes, note_sessions, prompts,
                      reply, handled>>
    \/ /\ procs[p].pc = "fetched"
       /\ IF procs[p].data.tag = "confirm"
          THEN ConfirmAutoEntry(procs[p].data.user_id, procs[p].data.location)
          ELSE WriteFetched(p) /\ UNCHANGED <<users, daily_notes, note_sessions>>
       /\ procs' = [procs EXCEPT ![p].pc = "reply"]
       /\ UNCHANGED <<now, handled>>

\* callback_handler from the return of query.answer() to the await of the reply
CallbackRun(p) ==
    /\ procs[p].pc = "answer"
    /\ CallbackHandler(procs[p].user, procs[p].data)
    /\ procs' = [procs EXCEPT ![p].pc = "reply", ![p].ts = now,
                              ![p].rows = FrameRows(procs[p].user, procs[p].data)]
    /\ UNCHANGED <<now, handled>>

\* the reply was sent and the handler returns
CallbackEnd(p) ==
    /\ procs[p].pc = "reply"
    /\ procs' = [procs EXCEPT ![p] = Idle]
    /\ UNCHANGED <<now, users, attendance, daily_notes, note_sessions, prompts, reply,
                   handled>>

NextConc ==
    \/ Tick
    \/ \E p \in Procs, u \in AttUsers, data \in AttCallbacks : CallbackBegin(p, u, data)
    \/ \E p \in Procs : CallbackRun(p)
    \/ \E p \in Procs : CallbackEnd(p)

\* entry, exit and confirmation callbacks in flight together
SpecConc == Init /\ [][NextConc]_vars

\* ------------------------------------------------------------- properties
\* an update was handled in this step
Handled == handled' = handled + 1

LastRow(att) == att[Len(att)]

\* the instant t lies in the date range sd..ed
InRange(t, sd, ed) == StartOfDay(sd) <= t /\ t <= EndOfDay(ed)

RECURSIVE SumTotals(_)
SumTotals(lines) == IF lines = <<>> THEN 0 ELSE lines[1].total + SumTotals(Tail(lines))

\* C1: for every user and location at most one attendance interval has a
\* null end, after any sequence of updates handled one at a time.
C1_OneOpenInterval ==
    \A u \in Users, l \in LocationSet : Cardinality(OpenIds(attendance, u, l)) <= 1

\* a second Entry was answered "exit required" while one interval is open
C1_Witness ==
    /\ reply.kind = "exit_required"
    /\ \E u \in Users, l \in LocationSet : Cardinality(OpenIds(attendance, u, l)) = 1

\* C2: an Entry for (U,L) handled while an interval of (U,L) is open is
\* answered "exit required first" and writes nothing: no row is inserted and
\* the open row is left as it is.
C2_EntryWhileOpenRejected ==
    [][\A u \in Users, l \in LocationSet :
          (HandleEntry(u, l) /\ OpenIds(attendance, u, l) # {})
              => /\ reply'.kind = "exit_required"
                 /\ attendance' = attendance
                 /\ store' = store]_vars

C2_Witness ==
    /\ reply.kind = "exit_required"
    /\ Len(attendance) = 1
    /\ IsNull(attendance[1].exit_time)
    /\ attendance[1].auto_created = 0

\* C3: an Exit for (U,L) with no open interval writes no row and answers with
\* the confirmation button for (U,L); handling that confirmation appends
\* exactly one row for (U,L) whose start and end are the instant of the
\* confirmation and whose auto_created flag is set.
C3_AutoEntryExit ==
    [][/\ \A u \in Users, l \in LocationSet :
            (HandleExit(u, l) /\ OpenIds(attendance, u, l) = {})
                => /\ store' = store
                   /\ reply' = [kind |-> "confirm_required", user_id |-> u, location |-> l]
                   /\ BagIn([user_id |-> u, location |-> l], prompts')
       /\ \A p \in BagToSet(prompts) :
            ConfirmAutoEntry(p.user_id, p.location)
                => /\ Len(attendance') = Len(attendance) + 1
                   /\ SubSeq(attendance', 1, Len(attendance)) = attendance
                   /\ LastRow(attendance') =
                          [user_id |-> p.user_id, location |-> p.location,
                           entry_time |-> now, exit_time |-> <<now>>,
                           auto_created |-> 1]]_vars

\* the confirmation of an Exit without Entry has been handled
C3_Witness ==
    /\ reply.kind = "auto_ok"
    /\ Len(attendance) = 1
    /\ attendance[1].auto_created = 1
    /\ attendance[1].exit_time = <<attendance[1].entry_time>>
    /\ BagIn([user_id |-> attendance[1].user_id, location |-> attendance[1].location],
             prompts)

\* C4: when the update before was an Exit for (U,L) answered "confirmation
\* required" (nothing was open), an Exit for (U,L) handled next gets the same
\* answer and changes no stored row.
C4_ExitTwice ==
    [][\A u \in Users, l \in LocationSet :
          (/\ reply = [kind |-> "confirm_required", user_id |-> u, location |-> l]
           /\ HandleExit(u, l))
              => /\ reply' = reply
                 /\ store' = store]_vars

\* two updates were handled, nothing is stored and the last answer asks to confirm
C4_Witness ==
    /\ handled = 2
    /\ attendance = <<>>
    /\ reply.kind = "confirm_required"
    /\ CopiesIn([user_id |-> reply.user_id, location |-> reply.location], prompts) = 2

\* the answers of the attendance report handlers (text and PDF), the raised
\* exception among them
RenderedKinds == {"report", "pdf", "exception"}

\* a closed interval entered by hand with a positive duration
ClosedByExit(r) ==
    r.auto_created = 0 /\ ~IsNull(r.exit_time) /\ r.exit_time[1] > r.entry_time

\* C5: an Exit that finds the interval opened at T0 sets its end to the
\* current instant T1 and shows T1 - T0; and an attendance report of that user
\* over a range holding T0 and T1 lists the interval with duration T1 - T0
\* under its location, inside the subtotal and the grand total.
C5_DurationCorrect ==
    [][/\ \A u \in Users, l \in LocationSet :
            (HandleExit(u, l) /\ OpenIds(attendance, u, l) # {})
                => LET i == Max(OpenIds(attendance, u, l))
                   IN  /\ Len(attendance') = Len(attendance)
                       /\ attendance'[i] = [attendance[i] EXCEPT !.exit_time = <<now>>]
                       /\ reply' = [kind |-> "exit_ok",
                                    human |-> <<now - attendance[i].entry_time>>]
       /\ (Handled /\ reply'.kind \in RenderedKinds)
            => \A i \in 1..Len(attendance) :
                 (/\ attendance[i].user_id = reply'.user
                  /\ ClosedByExit(attendance[i])
                  /\ InRange(attendance[i].entry_time, reply'.sd, reply'.ed)
                  /\ InRange(attendance[i].exit_time[1], reply'.sd, reply'.ed))
                    => /\ reply'.kind # "exception"
                       /\ \E k \in 1..Len(reply'.lines) :
                            /\ reply'.lines[k].loc = attendance[i].location
                            /\ \E j \in 1..Len(reply'.lines[k].intervals) :
                                 reply'.lines[k].intervals[j] =
                                     [ent |-> attendance[i].entry_time,
                                      ex |-> attendance[i].exit_time[1],
                                      dur |-> attendance[i].exit_time[1]
                                                - attendance[i].entry_time]
                            /\ reply'.lines[k].total = SumDur(reply'.lines[k].intervals)
                       /\ reply'.total = SumTotals(reply'.lines)]_vars

\* C6: an attendance report requested at instant T2 over a range holding the
\* start T0 < T2 of an interval still open completes and shows T2 - T0 for it.
C6_OpenIntervalShown ==
    [][(Handled /\ reply'.kind \in RenderedKinds)
          => \A i \in 1..Len(attendance) :
               (/\ attendance[i].user_id = reply'.user
                /\ IsNull(attendance[i].exit_time)
                /\ InRange(attendance[i].entry_time, reply'.sd, reply'.ed)
                /\ now > attendance[i].entry_time)
                  => /\ reply'.kind # "exception"
                     /\ \E k \in 1..Len(reply'.lines) :
                          /\ reply'.lines[k].loc = attendance[i].location
                          /\ \E j \in 1..Len(reply'.lines[k].intervals) :
                               /\ reply'.lines[k].intervals[j].ent = attendance[i].entry_time
                               /\ reply'.lines[k].intervals[j].dur =
                                      now - attendance[i].entry_time]_vars

\* C7: handling a report request (attendance text, custom range, notes, Excel,
\* PDF) leaves the four tables as they were; an open interval stays open.
ReportKinds ==
    RenderedKinds \cup {"excel", "notes_report", "no_notes", "usage", "bad_date"}

C7_ReportsReadOnly ==
    [][(Handled /\ reply'.kind \in ReportKinds) => store' = store]_vars

\* an export was sent that lists an interval still open in the table
C7_Witness ==
    /\ reply.kind = "excel"
    /\ \E j \in 1..Len(reply.rows) : IsNull(reply.rows[j].exit_time)
    /\ \E i \in 1..Len(attendance) : IsNull(attendance[i].exit_time)

Min2(a, b) == IF a <= b THEN a ELSE b

\* min(end ?? rangeEnd, rangeEnd) - start
ClampedDur(r, ed) ==
    Min2(IF IsNull(r.exit_time) THEN EndOfDay(ed) ELSE r.exit_time[1], EndOfDay(ed))
        - r.entry_time

RECURSIVE ClampedSum(_, _, _)
ClampedSum(att, ids, ed) ==
    IF ids = {} THEN 0
    ELSE LET i == CHOOSE x \in ids : TRUE
         IN  ClampedDur(att[i], ed) + ClampedSum(att, ids \ {i}, ed)

\* the rows of user u whose start lies in the range sd..ed
StartedIn(att, u, sd, ed) ==
    {i \in 1..Len(att) : att[i].user_id = u /\ InRange(att[i].entry_time, sd, ed)}

\* C8: in a completed attendance report over sd..ed every subtotal is the sum,
\* over the user's intervals at that location that start in the range, of
\* min(end ?? rangeEnd, rangeEnd) - start, and the grand total is that sum
\* over all locations.
C8_ClampedAggregation ==
    [][(Handled /\ reply'.kind \in {"report", "pdf"})
          => LET ids == StartedIn(attendance, reply'.user, reply'.sd, reply'.ed)
             IN  /\ \A k \in 1..Len(reply'.lines) :
                      reply'.lines[k].total =
                          ClampedSum(attendance,
                                     {i \in ids : attendance[i].location = reply'.lines[k].loc},
                                     reply'.ed)
                 /\ reply'.total = ClampedSum(attendance, ids, reply'.ed)]_vars

\* C9: with two callback handlers of the same user and location in flight
\* together, no step leaves two open intervals for one user and location, and
\* no step rewrites an end that was already set.
C9_LookupAndWriteAtomic ==
    [][/\ \A u \in Users, l \in LocationSet :
            Cardinality(OpenIds(attendance', u, l)) <= 1
       /\ \A i \in 1..Len(attendance) :
            ~IsNull(attendance[i].exit_time)
                => attendance'[i].exit_time = attendance[i].exit_time]_vars

\* a double tap: one handler has written its row and awaits its reply while
\* the handler of the same button is about to run
C9_Witness ==
    /\ procs[1].pc = "reply"
    /\ procs[2].pc = "answer"
    /\ procs[1].data = procs[2].data
    /\ procs[1].user = procs[2].user
    /\ procs[1].data.tag \in {"entry", "exit"}
    /\ procs[1].rows = <<>>
    /\ (procs[1].data.tag = "entry") =
           (OpenIds(attendance, procs[1].user, procs[1].data.location) # {})

\* C10: a free text of user U appends exactly one note (today's date, the
\* current time, the text) when U's note_sessions row is active, and appends
\* nothing and answers "recording is off" when the row is inactive or missing.
C10_NoteIffRecording ==
    [][\A u \in Users, msg \in Messages :
          (Handled /\ TextRouter(u, msg))
              => IF note_sessions[u] = <<1>>
                 THEN /\ daily_notes' = Append(daily_notes,
                            [user_id |-> u, note_date |-> DateOf(now),
                             time |-> now - StartOfDay(DateOf(now)), message |-> msg])
                      /\ reply'.kind = "note_saved"
                 ELSE /\ daily_notes' = daily_notes
                      /\ reply'.kind = "note_off"]_vars

\* a note was saved for a user whose recording mode is on
C10_Witness ==
    /\ reply.kind = "note_saved"
    /\ Len(daily_notes) = 1
    /\ note_sessions[daily_notes[1].user_id] = <<1>>
    /\ daily_notes[1].message \in Messages

\* the replies of the handlers that write note_sessions
SessionKinds == {"session_on", "session_off", "restarted"}

\* C11: the note session of a user is active after "daily note", inactive
\* after "end note" and inactive after a restart (text button or inline
\* button) whatever it was before, so that a second restart leaves it inactive;
\* handling any other update leaves every note session as it was.
C11_RecordingFlag ==
    [][Handled =>
          /\ reply'.kind = "session_on"
                => \E u \in Users :
                     /\ SessionActive(note_sessions', u)
                     /\ \A v \in Users \ {u} : note_sessions'[v] = note_sessions[v]
          /\ reply'.kind \in {"session_off", "restarted"}
                => \E u \in Users :
                     /\ note_sessions'[u] = <<0>>
                     /\ ~SessionActive(note_sessions', u)
                     /\ \A v \in Users \ {u} : note_sessions'[v] = note_sessions[v]
          /\ reply'.kind \notin SessionKinds => note_sessions' = note_sessions]_vars

\* a restart was handled after another update and left a session switched off
C11_Witness ==
    /\ reply.kind = "restarted"
    /\ handled = MaxUpdates
    /\ \E u \in Users : note_sessions[u] = <<0>>

\* the locations of the rows of user u that start in the range sd..ed
LocationsIn(att, u, sd, ed) ==
    {att[i].location : i \in StartedIn(att, u, sd, ed)}

\* C12: a completed attendance report has one line per configured location,
\* in the order of the list and also when its duration is zero, then a line
\* for every other location found in the rows of the range, and the subtotals
\* of its lines add up to the grand total it shows.
C12_LocationLines ==
    [][(Handled /\ reply'.kind \in {"report", "pdf"})
          => /\ Len(reply'.lines) >= Len(LOCATIONS)
             /\ \A k \in 1..Len(LOCATIONS) : reply'.lines[k].loc = LOCATIONS[k]
             /\ \A l \in LocationsIn(attendance, reply'.user, reply'.sd, reply'.ed) :
                  \E k \in 1..Len(reply'.lines) : reply'.lines[k].loc = l
             /\ SumTotals(reply'.lines) = reply'.total]_vars

\* both dates of the argument list parse and the first is after the second
Reversed(args) ==
    /\ Len(args) = 2
    /\ args[1].ok /\ args[2].ok
    /\ args[1].g > args[2].g

\* C13: /report_range with a start date after the end date is answered with
\* a report whose subtotals and grand total are zero and that lists no
\* interval, and /notes_range with such a range lists no note, whatever rows
\* are stored; neither raises.
C13_ReversedRangeEmpty ==
    [][\A u \in Users, args \in ArgLists :
          (Handled /\ Reversed(args))
              => /\ ReportRangeCmd(u, args)
                    => /\ reply'.kind = "report"
                       /\ reply'.total = 0
                       /\ \A k \in 1..Len(reply'.lines) :
                            /\ reply'.lines[k].total = 0
                            /\ reply'.lines[k].intervals = <<>>
                 /\ NotesRangeCmd(u, args) => reply'.kind = "no_notes"]_vars

\* a reversed attendance range was answered while the user has an interval
\* that starts on one of its two days
C13_Witness ==
    /\ reply.kind = "report"
    /\ reply.sd > reply.ed
    /\ \E i \in 1..Len(attendance) :
         /\ attendance[i].user_id = reply.user
         /\ DateOf(attendance[i].entry_time) \in {reply.sd, reply.ed}

\* a notes range was answered "no notes" while the user has notes on every
\* day of the calendar: the range was a reversed one
C13_NotesReached ==
    /\ reply.kind = "no_notes"
    /\ \A d \in Days : \E i \in 1..Len(daily_notes) :
         daily_notes[i].user_id \in AttUsers /\ daily_notes[i].note_date = d

\* the day of the month of the date n
DayOfMonth(n) == n - Ymd2Ord(YearOf(n), MonthOf(n), 1) + 1

SameMonth(a, b) == YearOf(a) = YearOf(b) /\ MonthOf(a) = MonthOf(b)

\* C14: for every reference date, daily is the date to itself, weekly the
\* Monday to the Sunday (7 days) of its week, monthly the first to the last
\* day of its month (in December the 31st of the same year), and any other
\* token fails with the invalid-period error; the reference date lies in the
\* range returned.
C14_PeriodRange ==
    reply.kind = "period"
        => LET d == reply.today
               r == reply.res
           IN  IF reply.period \notin {"daily", "weekly", "monthly"}
               THEN ~r.ok /\ r.exc = "ValueError"
               ELSE /\ r.ok
                    /\ r.sd <= d /\ d <= r.ed
                    /\ reply.period = "daily" => r.sd = d /\ r.ed = d
                    /\ reply.period = "weekly"
                          => /\ Weekday(r.sd) = 0
                             /\ Weekday(r.ed) = 6
                             /\ r.ed - r.sd + 1 = 7
                    /\ reply.period = "monthly"
                          => /\ DayOfMonth(r.sd) = 1
                             /\ SameMonth(r.sd, d)
                             /\ SameMonth(r.ed, d)
                             /\ ~SameMonth(r.ed + 1, d)
                             /\ MonthOf(d) = 12 => DayOfMonth(r.ed) = 31

\* the monthly range of a day in December was computed
C14_Witness ==
    /\ reply.kind = "period"
    /\ reply.period = "monthly"
    /\ MonthOf(reply.today) = 12
    /\ DayOfMonth(reply.today) > 1
    /\ reply.res.ok

\* the ids of the set ids in ascending order
RECURSIVE Ascending(_)
Ascending(ids) ==
    IF ids = {} THEN <<>>
    ELSE LET least == CHOOSE i \in ids : \A j \in ids : i <= j
         IN  <<least>> \o Ascending(ids \ {least})

\* C15: the table export has exactly one row per interval of the user whose
\* start lies in the period; the row of an interval still open has hours 0
\* (no end is substituted) and the row of a closed one has hours end - start.
C15_ExportRows ==
    [][(Handled /\ reply'.kind = "excel")
          => LET ids == Ascending(StartedIn(attendance, reply'.user, reply'.sd, reply'.ed))
             IN  /\ Len(reply'.rows) = Len(ids)
                 /\ \A k \in 1..Len(ids) :
                      LET r == attendance[ids[k]]
                          x == reply'.rows[k]
                      IN  /\ x.location = r.location
                          /\ x.entry_time = r.entry_time
                          /\ x.exit_time = r.exit_time
                          /\ x.hours = IF IsNull(r.exit_time) THEN 0
                                       ELSE r.exit_time[1] - r.entry_time]_vars

\* an export listed an interval opened before the current instant and still
\* open, next to a closed interval of positive length
C15_Witness ==
    /\ reply.kind = "excel"
    /\ \E j \in 1..Len(reply.rows) :
         /\ IsNull(reply.rows[j].exit_time)
         /\ reply.rows[j].entry_time < now
         /\ reply.rows[j].hours = 0
    /\ \E j \in 1..Len(reply.rows) :
         /\ ~IsNull(reply.rows[j].exit_time)
         /\ reply.rows[j].hours > 0

\* C16: no step removes an attendance row or changes the user, the location,
\* the start or the auto flag of one; the end of a row changes only from null
\* to the current instant, in a step answered as an Exit, and only for the
\* row the open-interval lookup of its user and location returns; a row whose
\* end is set stays as it is.
C16_IntervalsImmutable ==
    [][/\ Len(attendance') >= Len(attendance)
       /\ \A i \in 1..Len(attendance) :
            LET r == attendance[i]
                x == attendance'[i]
            IN  /\ x.user_id = r.user_id
                /\ x.location = r.location
                /\ x.entry_time = r.entry_time
                /\ x.auto_created = r.auto_created
                /\ ~IsNull(r.exit_time) => x = r
                /\ x.exit_time # r.exit_time
                      => /\ IsNull(r.exit_time)
                         /\ x.exit_time = <<now>>
                         /\ reply'.kind = "exit_ok"
                         /\ SelectOpen(attendance, r.user_id, r.location) = <<i>>]_vars

\* an Exit closed the second interval of the table next to an earlier closed one
C16_Witness ==
    /\ reply.kind = "exit_ok"
    /\ Len(attendance) >= 2
    /\ \A i \in 1..Len(attendance) : ~IsNull(attendance[i].exit_time)
    /\ \E i, j \in 1..Len(attendance) :
         attendance[i].exit_time[1] < attendance[j].exit_time[1]

\* the rows of a table that belong to user u
RowsOf(table, u) == SelectSeq(table, LAMBDA r : r.user_id = u)

\* the attendance rows, the notes and the note session of user b are the same
\* before and after the step
Untouched(b) ==
    /\ RowsOf(attendance', b) = RowsOf(attendance, b)
    /\ RowsOf(daily_notes', b) = RowsOf(daily_notes, b)
    /\ note_sessions'[b] = note_sessions[b]

\* C17: an update sent by user A leaves the intervals, the notes and the
\* note session of every other user as they were; a confirmation button
\* pressed by A inserts the automatic interval for A, also when the payload
\* of the button carries the id of another user.
C17_UserIsolation ==
    [][\A a \in Users :
          /\ ( /\ Handled
               /\ \/ Start(a)
                  \/ \E text \in Texts : TextRouter(a, text)
                  \/ \E data \in Callbacks : CallbackHandler(a, data)
                  \/ \E args \in ArgLists : ReportRangeCmd(a, args)
                  \/ \E args \in ArgLists : NotesRangeCmd(a, args) )
                => \A b \in Users \ {a} : Untouched(b)
          /\ \A data \in Callbacks :
               (Handled /\ data.tag = "confirm" /\ CallbackHandler(a, data))
                  => /\ Len(attendance') = Len(attendance) + 1
                     /\ LastRow(attendance').user_id = a]_vars

\* the rows a step appends to the attendance table
Inserted == {i \in 1..Len(attendance') : i > Len(attendance)}

\* C18: a step inserts an auto-created interval for a user and a location only
\* when no interval of that user and location is open as the confirmation is
\* handled; after an Entry accepted between the Exit that asked and the
\* confirmation, the confirmation inserts nothing.
C18_AutoEntryOnlyWhenClosed ==
    [][\A i \in Inserted :
          attendance'[i].auto_created = 1
              => OpenIds(attendance, attendance'[i].user_id, attendance'[i].location) = {}]_vars

\* the auto-created intervals stored for the user and location of payload p
AutoRows(att, p) ==
    {i \in 1..Len(att) : /\ att[i].user_id = p.user_id
                         /\ att[i].location = p.location
                         /\ att[i].auto_created = 1}

\* C19: every "confirmation required" answer of an Exit gives rise to at most
\* one auto-created interval: for each user and location there are never more
\* auto-created intervals than confirmation buttons were sent, so that the
\* same button pressed again inserts nothing.
C19_OneAutoEntryPerPrompt ==
    \A u \in Users, l \in LocationSet :
        LET p == [user_id |-> u, location |-> l]
        IN  Cardinality(AutoRows(attendance, p)) <= CopiesIn(p, prompts)

\* C20: a row appended by a confirmation has the auto flag set, is closed and
\* has start = end; a row appended by an Entry has the flag clear and is open;
\* no other update appends a row and no step changes a flag; so in every
\* state the rows with the flag set are those the confirmations inserted, and
\* each of them is closed with start = end.
C20_AutoFlag ==
    [][/\ \A i \in Inserted :
            LET x == attendance'[i]
            IN  \/ /\ reply'.kind = "auto_ok"
                   /\ x.auto_created = 1
                   /\ x.exit_time = <<x.entry_time>>
                \/ /\ reply'.kind = "entry_ok"
                   /\ x.auto_created = 0
                   /\ IsNull(x.exit_time)
       /\ \A i \in 1..Len(attendance) :
            attendance'[i].auto_created = attendance[i].auto_created
       /\ \A i \in 1..Len(attendance') :
            attendance'[i].auto_created = 1
                => attendance'[i].exit_time = <<attendance'[i].entry_time>>]_vars

\* an auto-created interval is stored next to an interval that an Entry
\* opened and a later Exit closed
C20_Witness ==
    /\ \E i \in 1..Len(attendance) :
         /\ attendance[i].auto_created = 1
         /\ attendance[i].exit_time = <<attendance[i].entry_time>>
    /\ \E i \in 1..Len(attendance) :
         /\ attendance[i].auto_created = 0
         /\ ~IsNull(attendance[i].exit_time)
         /\ attendance[i].exit_time[1] > attendance[i].entry_time

\* C21: with a clock that never goes back, every stored interval whose end is
\* set has end >= start, and every subtotal and the grand total of a
\* completed attendance report, as the hours of every export row, are not
\* negative.
C21_ClosedIntervalsNonNegative ==
    /\ \A i \in 1..Len(attendance) :
         ~IsNull(attendance[i].exit_time)
             => attendance[i].exit_time[1] >= attendance[i].entry_time
    /\ reply.kind \in {"report", "pdf"}
         => /\ reply.total >= 0
            /\ \A k \in 1..Len(reply.lines) :
                 /\ reply.lines[k].total >= 0
                 /\ \A j \in 1..Len(reply.lines[k].intervals) :
                      reply.lines[k].intervals[j].dur >= 0
    /\ reply.kind = "excel"
         => \A j \in 1..Len(reply.rows) : reply.rows[j].hours >= 0

\* a report was completed that shows an interval closed after its start
C21_Witness ==
    /\ reply.kind \in {"report", "pdf"}
    /\ reply.total > 0
    /\ \E i \in 1..Len(attendance) :
         /\ ~IsNull(attendance[i].exit_time)
         /\ attendance[i].exit_time[1] > attendance[i].entry_time

\* the payload of the inline restart button
RestartButton == [tag |-> "restart", user_id |-> 0, location |-> ""]

\* C22: a restart of user A, by the menu button or by the inline button,
\* leaves every attendance row, every note, the users table and the note
\* session of every other user as they were; an interval open before it is
\* open after it, and an Entry for its location handled next is answered
\* "exit required" and stores nothing.
C22_RestartFrame ==
    [][/\ \A a \in Users :
            (Handled /\ (TextRouter(a, "restart") \/ CallbackHandler(a, RestartButton)))
                => /\ attendance' = attendance
                   /\ daily_notes' = daily_notes
                   /\ users' = users
                   /\ \A b \in Users \ {a} : note_sessions'[b] = note_sessions[b]
       /\ \A u \in Users, l \in LocationSet :
            (/\ reply.kind = "restarted"
             /\ OpenIds(attendance, u, l) # {}
             /\ Handled
             /\ HandleEntry(u, l))
                => /\ reply'.kind = "exit_required"
                   /\ store' = store]_vars

\* after an Entry and a restart of the same user a second Entry for the
\* location was rejected, the interval still open
C22_Witness ==
    /\ reply.kind = "exit_required"
    /\ \E i \in 1..Len(attendance) :
         /\ IsNull(attendance[i].exit_time)
         /\ note_sessions[attendance[i].user_id] = <<0>>

\* C23: for every user and every range of days the rows the range query
\* returns are in ascending order of start, in every reachable state of the
\* table; so are the intervals listed under each location of a report and the
\* rows of an export.
C23_RangeQueryAscending ==
    /\ \A u \in Users, sd \in Days, ed \in Days :
         LET rows == SelectRange(attendance, u, sd, ed)
         IN  \A j, k \in 1..Len(rows) :
               j < k => rows[j].entry_time <= rows[k].entry_time
    /\ reply.kind \in {"report", "pdf"}
         => \A n \in 1..Len(reply.lines) :
              LET ivs == reply.lines[n].intervals
              IN  \A j, k \in 1..Len(ivs) : j < k => ivs[j].ent <= ivs[k].ent
    /\ reply.kind = "excel"
         => \A j, k \in 1..Len(reply.rows) :
              j < k => reply.rows[j].entry_time <= reply.rows[k].entry_time

\* a report lists two intervals with different starts under one location
C23_Witness ==
    /\ reply.kind \in {"report", "pdf"}
    /\ \E n \in 1..Len(reply.lines) :
         /\ Len(reply.lines[n].intervals) >= 2
         /\ reply.lines[n].intervals[1].ent < reply.lines[n].intervals[2].ent

====
